---- MODULE Spec2Model ----
(***************************************************************************)
(* Model of advanced_midi_keyboard.py: the key emulation of                *)
(* MidiPlayerThread (_process_midi_message, _press_key, _release_key,      *)
(* _press_space, _release_space, _release_all_keys), the scheduling loop   *)
(* of MidiPlayerThread.run, and the handlers of MidiKeyboardApp that       *)
(* start, pause, stop and chain playback sessions.                         *)
(*                                                                         *)
(* Specifications:                                                         *)
(*   SpecKeys    dispatches arbitrary messages to _process_midi_message of *)
(*               one worker (the key emulation on its own);                *)
(*   Spec        the application: UI thread, playback worker, live input   *)
(*               worker, the wall clock and the queue of cross-thread      *)
(*               'finished' notifications;                                 *)
(*   SpecLive    Spec with the scheduling of the playback worker (weak     *)
(*               fairness), for the liveness of cancellation;              *)
(*   SpecCompile MidiLoadingThread.run on any short message stream;        *)
(*   SpecDialog  the key map editor (KeyMappingDialog);                    *)
(*   SpecText    generate_and_display_text on any short compiled sequence; *)
(*   SpecDevice  the key emulation on a backend that rejects actions.      *)
(***************************************************************************)
EXTENDS Integers, Sequences, FiniteSets, TLC

VARIABLES
    \* ---- MidiKeyboardApp ------------------------------------------------
    note_map,          \* self.note_map: note -> character
    current_row,       \* playlist_widget.currentRow(), 0 = no current item
    speed_slider,      \* speed_slider.value()
    transpose_spinbox, \* transpose_spinbox.value()
    ui_pc,             \* where the UI thread is (idle, or blocked in a wait())
    fin_queue,         \* queued 'finished' signals not yet delivered to the UI
    input_pc,          \* MidiInputThread: "none", "listen", "done"
    input_is_running,  \* MidiInputThread.is_running
    input_notes,       \* MidiInputThread.active_notes
    input_obs,         \* what the input worker has emitted (see InputObs0)
    ui_playing,        \* is_playing as of the latest update_button_states()
    \* ---- MidiPlayerThread (the current self.player_thread) --------------
    pc,                \* position of the worker in run(); "none" = no thread
    events,            \* self.events (the compiled sequence)
    default_sustain_on,
    is_running, is_paused,
    speed_multiplier,  \* kept as the slider value v: the multiplier is 100/v
    transpose,
    countdown_i,       \* i of the countdown loop
    start_time, event_index, pause_offset, pause_start_time, song_time,
    ks,                \* active_notes, pressed_keys, is_space_pressed and the
                       \* state of the emulated keyboard (see KeyState0)
    live_players,      \* MidiPlayerThread objects whose run() has not returned
    \* ---- environment ----------------------------------------------------
    now,               \* time.perf_counter()
    \* ---- observations of the current session ----------------------------
    obs,               \* what the worker has emitted (see Obs0)
    \* ---- MidiLoadingThread ----------------------------------------------
    loader,            \* the locals of MidiLoadingThread.run (see Loader0)
    dialog,            \* the KeyMappingDialog of open_key_map_editor (see Dialog0)
    export,            \* the Text Mapping tab and the data it is made from
    dev                \* the input backend's rejections and the worker's log lines

vars == << note_map, current_row, speed_slider, transpose_spinbox, ui_pc,
           fin_queue, input_pc, input_is_running, input_notes, input_obs,
           ui_playing,
           pc, events,
           default_sustain_on, is_running, is_paused, speed_multiplier,
           transpose, countdown_i, start_time, event_index, pause_offset,
           pause_start_time, song_time, ks, live_players, now, obs,
           loader, dialog, export, dev >>

\* the variables of the components next to the playback engine
auxVars == << loader, dialog, export, dev >>

inputVars == << input_pc, input_is_running, input_notes, input_obs >>
cfgVars == << events, default_sustain_on >>
flagVars == << is_running, is_paused, speed_multiplier, transpose >>
locVars == << countdown_i, start_time, event_index, pause_offset,
              pause_start_time, song_time >>
threadVars == << pc, cfgVars, flagVars, locVars, ks, live_players, now, obs >>

----------------------------------------------------------------------------
(* Constants of the program, restricted to the notes the model plays.      *)

\* DEFAULT_NOTE_MAP restricted to ModelNotes: 53/54 share the base key q,
\* 64/98 are both mapped to u, 38 is a shifted key, 35 has no entry, 106 is
\* the highest note with an entry.
DEFAULT_NOTE_MAP ==
    (38 :> "_") @@ (53 :> "q") @@ (54 :> "Q") @@ (55 :> "w") @@
    (64 :> "u") @@ (98 :> "u") @@ (106 :> "_")

\* SHIFT_MAP restricted to the characters DEFAULT_NOTE_MAP above can yield.
SHIFT_MAP == ("_" :> "-") @@ ("Q" :> "q")

KeyShift == "shift"
KeySpace == "space"

\* The value of note_map.get(note) when the note has no entry (None).
NoChar == ""

----------------------------------------------------------------------------
(* Messages (mido.Message) and compiled files.                             *)

NoteOn(n, v)  == [type |-> "note_on", note |-> n, velocity |-> v,
                  control |-> 0, value |-> 0]
NoteOff(n)    == [type |-> "note_off", note |-> n, velocity |-> 0,
                  control |-> 0, value |-> 0]
Sustain(v)    == [type |-> "control_change", note |-> 0, velocity |-> 0,
                  control |-> 64, value |-> v]

HasNote(msg) == msg.type \in {"note_on", "note_off"}

\* msg.type == 'control_change' and msg.control == 64
IsSustainMsg(msg) == msg.type = "control_change" /\ msg.control = 64

Ev(t, m) == [timestamp |-> t, msg |-> m]

----------------------------------------------------------------------------
(* Key emulation state of one MidiPlayerThread and of the keyboard it      *)
(* drives (pynput Controller).                                             *)
(*   active_notes      dict visual note -> velocity                        *)
(*   pressed_keys      dict note -> base key, as the sequence of its items *)
(*                     in insertion order                                  *)
(*   is_space_pressed  the worker's flag                                   *)
(*   held              the keys that are physically down                   *)
(*   actions           the press/release actions of the latest call of     *)
(*                     _process_midi_message or _release_all_keys, each    *)
(*                     with whether the key was down before it             *)
(*   note_event        payload of the latest note_event.emit               *)
(*   notes_on          the source notes that are on: a NoteOn with         *)
(*                     velocity > 0 was dispatched and no NoteOff or       *)
(*                     zero-velocity NoteOn since (kept by the observer,   *)
(*                     not a field of the program)                         *)
(*   visual_on         for each source note that is on, the visual note    *)
(*                     its NoteOn put into active_notes (kept by the       *)
(*                     observer, not a field of the program)               *)

EmptyMap == << >>

\* What the current MidiInputThread (self.input_thread) has emitted:
\* note_event.emit({}) calls, 'Stopped listening.' log lines, and how it left
\* its loop ("break" or "error").
InputObs0 == [empty_snapshots |-> 0, stopped_logs |-> 0, exit_by |-> "none"]

\* State of a freshly constructed MidiPlayerThread (line 184), on a keyboard
\* whose physical state is `held`.
KeyState0(held) ==
    [active_notes |-> EmptyMap, pressed_keys |-> << >>,
     is_space_pressed |-> FALSE, held |-> held, actions |-> << >>,
     note_event |-> EmptyMap, notes_on |-> {}, visual_on |-> EmptyMap]

MapPut(f, k, v) == [x \in (DOMAIN f) \cup {k} |-> IF x = k THEN v ELSE f[x]]
MapDel(f, k)    == [x \in (DOMAIN f) \ {k} |-> f[x]]

\* dict helpers on the item sequence of pressed_keys
PressedNotes(pk) == {pk[i].note : i \in DOMAIN pk}
PressedGet(pk, n) == (CHOOSE i \in DOMAIN pk : pk[i].note = n)
PressedPop(pk, n) == SelectSeq(pk, LAMBDA e : e.note # n)

\* keyboard.press(key) / keyboard.release(key)
KbPress(k, key) ==
    [k EXCEPT !.held = @ \cup {key},
              !.actions = Append(@, [op |-> "press", key |-> key,
                                     was_held |-> key \in k.held])]
KbRelease(k, key) ==
    [k EXCEPT !.held = @ \ {key},
              !.actions = Append(@, [op |-> "release", key |-> key,
                                     was_held |-> key \in k.held])]

\* note_map.get(note)
NoteMapGet(nm, note) == IF note \in DOMAIN nm THEN nm[note] ELSE NoChar

\* with self.keyboard.pressed(Key.shift): self.keyboard.press(base)
\* (pynput: press Shift, run the body, release Shift on leaving the block)
ShiftedPress(k, base) == KbRelease(KbPress(KbPress(k, KeyShift), base), KeyShift)

\* A _press_key whose Shift stays down after the shifted press.
press_key_ShiftStaysDown(k, nm, note) ==
    LET char == NoteMapGet(nm, note) IN
    IF char = NoChar \/ note \in PressedNotes(k.pressed_keys) THEN k
    ELSE IF char \in DOMAIN SHIFT_MAP
         THEN [KbPress(KbPress(k, KeyShift), SHIFT_MAP[char]) EXCEPT
                 !.pressed_keys = Append(@, [note |-> note, key |-> SHIFT_MAP[char]])]
         ELSE [KbPress(k, char) EXCEPT
                 !.pressed_keys = Append(@, [note |-> note, key |-> char])]

\* A _press_key that presses again for a note that has a record.
press_key_Retriggers(k, nm, note) ==
    LET char == NoteMapGet(nm, note) IN
    IF char = NoChar THEN k
    ELSE IF char \in DOMAIN SHIFT_MAP
         THEN [ShiftedPress(k, SHIFT_MAP[char]) EXCEPT
                 !.pressed_keys = Append(PressedPop(@, note),
                                         [note |-> note, key |-> SHIFT_MAP[char]])]
         ELSE [KbPress(k, char) EXCEPT
                 !.pressed_keys = Append(PressedPop(@, note),
                                         [note |-> note, key |-> char])]

\* MidiPlayerThread._press_key
press_key(k, nm, note) ==
    LET char == NoteMapGet(nm, note) IN
    IF char = NoChar \/ note \in PressedNotes(k.pressed_keys) THEN k
    ELSE IF char \in DOMAIN SHIFT_MAP
         THEN [ShiftedPress(k, SHIFT_MAP[char]) EXCEPT
                 !.pressed_keys = Append(@, [note |-> note, key |-> SHIFT_MAP[char]])]
         ELSE [KbPress(k, char) EXCEPT
                 !.pressed_keys = Append(@, [note |-> note, key |-> char])]

\* MidiPlayerThread._release_key
release_key(k, note) ==
    IF note \in PressedNotes(k.pressed_keys)
    THEN [KbRelease(k, k.pressed_keys[PressedGet(k.pressed_keys, note)].key) EXCEPT
            !.pressed_keys = PressedPop(@, note)]
    ELSE k

\* MidiPlayerThread._press_space
press_space(k) ==
    IF ~k.is_space_pressed
    THEN [KbPress(k, KeySpace) EXCEPT !.is_space_pressed = TRUE]
    ELSE k

\* MidiPlayerThread._release_space
release_space(k) ==
    IF k.is_space_pressed
    THEN [KbRelease(k, KeySpace) EXCEPT !.is_space_pressed = FALSE]
    ELSE k

\* the body of _process_midi_message, on the state k
ProcessBody(k, nm, msg, tr) ==
    IF msg.type = "control_change" /\ msg.control = 64
    THEN IF msg.value >= 64 THEN release_space(k) ELSE press_space(k)
    ELSE IF HasNote(msg)
    THEN LET visual_note == msg.note + tr
             k1 == IF msg.type = "note_on" /\ msg.velocity > 0
                   THEN press_key([k EXCEPT !.active_notes =
                                      MapPut(@, visual_note, msg.velocity),
                                    !.notes_on = @ \cup {msg.note},
                                    !.visual_on = MapPut(@, msg.note, visual_note)],
                                  nm, msg.note)
                   ELSE release_key([k EXCEPT !.active_notes =
                                       MapDel(@, visual_note),
                                     !.notes_on = @ \ {msg.note},
                                     !.visual_on = MapDel(@, msg.note)], msg.note)
         IN [k1 EXCEPT !.note_event = k1.active_notes]
    ELSE k

\* MidiPlayerThread._process_midi_message (msg dispatched with the worker's
\* note_map and the current self.transpose)
process_midi_message(k, nm, msg, tr) ==
    ProcessBody([k EXCEPT !.actions = << >>], nm, msg, tr)

\* for key in self.pressed_keys.values(): self.keyboard.release(key)
RECURSIVE ReleaseEach(_, _)
ReleaseEach(k, pk) ==
    IF pk = << >> THEN k ELSE ReleaseEach(KbRelease(k, Head(pk).key), Tail(pk))

\* A _release_all_keys that clears the bookkeeping without releasing the
\* recorded keys.
release_all_keys_NoRelease(k) ==
    LET k2 == release_space(KbRelease([k EXCEPT !.actions = << >>], KeyShift))
    IN [k2 EXCEPT !.pressed_keys = << >>, !.active_notes = EmptyMap,
                  !.note_event = EmptyMap]

\* A _release_all_keys that leaves pressed_keys as it was.
release_all_keys_NoClear(k) ==
    LET k1 == ReleaseEach([k EXCEPT !.actions = << >>], k.pressed_keys)
        k2 == release_space(KbRelease(k1, KeyShift))
    IN [k2 EXCEPT !.active_notes = EmptyMap, !.note_event = EmptyMap]

\* MidiPlayerThread._release_all_keys
release_all_keys(k) ==
    LET k1 == ReleaseEach([k EXCEPT !.actions = << >>], k.pressed_keys)
        k2 == release_space(KbRelease(k1, KeyShift))
    IN [k2 EXCEPT !.pressed_keys = << >>, !.active_notes = EmptyMap,
                  !.note_event = EmptyMap]

----------------------------------------------------------------------------
(* The key emulation on a backend that rejects actions: every press or     *)
(* release of a key in `rej` raises. A rejected call is recorded in        *)
(* actions with op "press_rejected" / "release_rejected" and leaves the    *)
(* keyboard as it was.                                                     *)

\* rejected: backend calls that raised; log_lines: log_message.emit calls
Dev0 == [rejected |-> 0, log_lines |-> 0]

Rejected(k, op, key) ==
    [k EXCEPT !.actions = Append(@, [op |-> op, key |-> key,
                                     was_held |-> key \in k.held])]

KbPressRej(k, key, rej) ==
    IF key \in rej THEN Rejected(k, "press_rejected", key) ELSE KbPress(k, key)
KbReleaseRej(k, key, rej) ==
    IF key \in rej THEN Rejected(k, "release_rejected", key)
    ELSE KbRelease(k, key)

\* _press_key, lines 225-233: an exception leaves the try block before the
\* record is written; leaving the `with` block releases Shift
press_key_rej(k, nm, note, rej) ==
    LET char == NoteMapGet(nm, note) IN
    IF char = NoChar \/ note \in PressedNotes(k.pressed_keys) THEN k
    ELSE IF char \in DOMAIN SHIFT_MAP
         THEN LET base == SHIFT_MAP[char] IN
              IF KeyShift \in rej THEN Rejected(k, "press_rejected", KeyShift)
              ELSE IF base \in rej
              THEN KbRelease(Rejected(KbPress(k, KeyShift), "press_rejected",
                                      base), KeyShift)
              ELSE [ShiftedPress(k, base) EXCEPT
                      !.pressed_keys = Append(@, [note |-> note, key |-> base])]
         ELSE IF char \in rej THEN Rejected(k, "press_rejected", char)
              ELSE [KbPress(k, char) EXCEPT
                      !.pressed_keys = Append(@, [note |-> note, key |-> char])]

\* _release_key, lines 234-237: pop() runs before release() is called
release_key_rej(k, note, rej) ==
    IF note \in PressedNotes(k.pressed_keys)
    THEN [KbReleaseRej(k, k.pressed_keys[PressedGet(k.pressed_keys, note)].key,
                       rej)
            EXCEPT !.pressed_keys = PressedPop(@, note)]
    ELSE k

\* _press_space, lines 238-241
press_space_rej(k, rej) ==
    IF ~k.is_space_pressed
    THEN IF KeySpace \in rej THEN Rejected(k, "press_rejected", KeySpace)
         ELSE [KbPress(k, KeySpace) EXCEPT !.is_space_pressed = TRUE]
    ELSE k

\* _release_space, lines 242-245
release_space_rej(k, rej) ==
    IF k.is_space_pressed
    THEN IF KeySpace \in rej THEN Rejected(k, "release_rejected", KeySpace)
         ELSE [KbRelease(k, KeySpace) EXCEPT !.is_space_pressed = FALSE]
    ELSE k

\* _process_midi_message, lines 214-224
process_midi_message_rej(k0, nm, msg, tr, rej) ==
    LET k == [k0 EXCEPT !.actions = << >>] IN
    IF msg.type = "control_change" /\ msg.control = 64
    THEN IF msg.value >= 64 THEN release_space_rej(k, rej)
         ELSE press_space_rej(k, rej)
    ELSE IF HasNote(msg)
    THEN LET visual_note == msg.note + tr
             k1 == IF msg.type = "note_on" /\ msg.velocity > 0
                   THEN press_key_rej([k EXCEPT !.active_notes =
                                          MapPut(@, visual_note, msg.velocity),
                                        !.notes_on = @ \cup {msg.note},
                                        !.visual_on = MapPut(@, msg.note, visual_note)],
                                      nm, msg.note, rej)
                   ELSE release_key_rej([k EXCEPT !.active_notes =
                                           MapDel(@, visual_note),
                                         !.notes_on = @ \ {msg.note},
                                         !.visual_on = MapDel(@, msg.note)],
                                        msg.note, rej)
         IN [k1 EXCEPT !.note_event = k1.active_notes]
    ELSE k

\* lines 250-252: each release in its own try
RECURSIVE ReleaseEachRej(_, _, _)
ReleaseEachRej(k, pk, rej) ==
    IF pk = << >> THEN k
    ELSE ReleaseEachRej(KbReleaseRej(k, Head(pk).key, rej), Tail(pk), rej)

\* _release_all_keys, lines 249-255: release(Key.shift) and _release_space()
\* share one try block
release_all_keys_rej(k, rej) ==
    LET k1 == ReleaseEachRej([k EXCEPT !.actions = << >>], k.pressed_keys, rej)
        k2 == IF KeyShift \in rej
              THEN Rejected(k1, "release_rejected", KeyShift)
              ELSE release_space_rej(KbRelease(k1, KeyShift), rej)
    IN [k2 EXCEPT !.pressed_keys = << >>, !.active_notes = EmptyMap,
                  !.note_event = EmptyMap]

\* the calls of the latest handler the backend rejected
Rejections(k) ==
    Cardinality({i \in DOMAIN k.actions :
                   k.actions[i].op \in {"press_rejected", "release_rejected"}})

----------------------------------------------------------------------------
(* Bounds of the model and the compiled files of the playlist.             *)

\* The clock is followed for MaxNow ticks after a worker is created.
MaxNow == 2
\* At most MaxQueue 'finished' notifications wait for the UI thread.
MaxQueue == 2

\* speed_slider values (range 50..200) and transpose_spinbox values
\* (range -24..24) the user picks from.
SpeedValues == {50, 100}
TransposeValues == {0, 1}

\* q and Q (one base key) overlap; ties in the timestamps.
FileA == << Ev(0, NoteOn(53, 80)), Ev(0, NoteOn(54, 80)),
            Ev(1, NoteOff(53)), Ev(1, NoteOff(54)) >>
\* a sustain pair (pedal down, pedal up); ends with w and the space key down
FileB == << Ev(0, NoteOn(55, 80)), Ev(1, Sustain(127)), Ev(1, Sustain(0)) >>

\* midi_infos of the playlist rows 1..Len(Playlist)
Playlist == << FileA, FileB >>

\* has_sustain of a compiled file (MidiLoadingThread.run, line 157)
HasSustain(evs) ==
    \E i \in DOMAIN evs :
        evs[i].msg.type = "control_change" /\ evs[i].msg.control = 64

----------------------------------------------------------------------------
(* What the worker of the current session has emitted.                     *)
(*   release_all_count  calls of _release_all_keys                         *)
(*   finished_count     finished.emit() calls                              *)
(*   dispatch_log       the event indices (1-based) handed to              *)
(*                      _process_midi_message, in call order               *)
(*   progress           value of the latest progress_update.emit           *)
(*   stop_midi          stop_midi() has called stop() on this worker       *)
(*   playing            status_update.emit("Playing...") has happened      *)
(*   transposed         transpose_changed has assigned the worker's        *)
(*                      transpose                                          *)
(*   late_dispatch      events handed to _process_midi_message while       *)
(*                      is_running was False                               *)
Obs0 == [release_all_count |-> 0, finished_count |-> 0, dispatch_log |-> << >>,
         progress |-> 0, stop_midi |-> FALSE, playing |-> FALSE,
         transposed |-> FALSE, late_dispatch |-> 0]

\* self.player_thread and self.player_thread.isRunning()
PlayerRunning == pc \notin {"none", "done"}

\* (time.perf_counter() - start_time - pause_offset) / self.speed_multiplier,
\* in hundredths: the multiplier is 100 / v for the stored slider value v.
SongTimeNow == (now - start_time - pause_offset) * speed_multiplier

\* song_time < timestamp, song_time in hundredths
Before(st, timestamp) == st < timestamp * 100

----------------------------------------------------------------------------
(* MidiPlayerThread.run, one action per step between two reads of the      *)
(* shared flags or of the clock.                                           *)

\* run() returns: its local variables are gone and the clock is no longer
\* read
LocalsGone ==
    /\ countdown_i' = 0 /\ start_time' = 0 /\ event_index' = 0
    /\ pause_offset' = 0 /\ pause_start_time' = 0 /\ song_time' = 0
    /\ now' = 0

\* A countdown that sleeps through its three seconds whatever is_running is.
Countdown_NoStopCheck ==
    /\ pc = "countdown"
    /\ IF countdown_i > 1
       THEN countdown_i' = countdown_i - 1 /\ pc' = pc
       ELSE countdown_i' = countdown_i /\ pc' = "start"
    /\ UNCHANGED << auxVars, note_map, current_row, speed_slider, transpose_spinbox,
                    ui_pc, fin_queue, inputVars, ui_playing, cfgVars, flagVars,
                    start_time, event_index, pause_offset, pause_start_time,
                    song_time, ks, now, obs, live_players >>

\* lines 186-188: one iteration of the countdown
Countdown ==
    /\ pc = "countdown"
    /\ IF ~is_running
       THEN /\ pc' = "done"
            /\ obs' = [obs EXCEPT !.finished_count = @ + 1]
            /\ fin_queue' = Append(fin_queue, [user_stop |-> obs.stop_midi])
            /\ live_players' = live_players - 1
            /\ LocalsGone
       ELSE /\ IF countdown_i > 1
               THEN countdown_i' = countdown_i - 1 /\ pc' = pc
               ELSE countdown_i' = countdown_i /\ pc' = "start"
            /\ UNCHANGED << obs, fin_queue, live_players, start_time,
                            event_index, pause_offset, pause_start_time,
                            song_time, now >>
    /\ UNCHANGED << auxVars, note_map, current_row, speed_slider, transpose_spinbox,
                    ui_pc, inputVars, ui_playing, cfgVars, flagVars,
                    ks >>

\* lines 189-193
StartPlaying ==
    /\ pc = "start"
    /\ IF ~is_running
       THEN /\ pc' = "done"
            /\ obs' = [obs EXCEPT !.finished_count = @ + 1]
            /\ fin_queue' = Append(fin_queue, [user_stop |-> obs.stop_midi])
            /\ live_players' = live_players - 1
            /\ LocalsGone
            /\ UNCHANGED ks
       ELSE /\ pc' = "loop"
            /\ obs' = [obs EXCEPT !.playing = TRUE]
            /\ ks' = IF default_sustain_on
                     THEN release_space([ks EXCEPT !.actions = << >>])
                     ELSE ks
            /\ start_time' = now
            /\ event_index' = 0
            /\ pause_offset' = 0
            /\ UNCHANGED << fin_queue, live_players, countdown_i,
                            pause_start_time, song_time, now >>
    /\ UNCHANGED << auxVars, note_map, current_row, speed_slider, transpose_spinbox,
                    ui_pc, inputVars, ui_playing, cfgVars, flagVars >>

\* line 194: while event_index < len(self.events) and self.is_running
LoopTest ==
    /\ pc = "loop"
    /\ pc' = IF event_index < Len(events) /\ is_running
             THEN "check_pause" ELSE "cleanup"
    /\ UNCHANGED << auxVars, note_map, current_row, speed_slider, transpose_spinbox,
                    ui_pc, fin_queue, inputVars, ui_playing, cfgVars,
                    flagVars, locVars, ks, now, obs, live_players >>

\* lines 195-196
CheckPause ==
    /\ pc = "check_pause"
    /\ IF is_paused
       THEN pause_start_time' = now /\ pc' = "paused"
       ELSE pause_start_time' = pause_start_time /\ pc' = "song_time"
    /\ UNCHANGED << auxVars, note_map, current_row, speed_slider, transpose_spinbox,
                    ui_pc, fin_queue, inputVars, ui_playing, cfgVars,
                    flagVars, countdown_i, start_time, event_index,
                    pause_offset, song_time, ks, now, obs, live_players >>

\* A pause loop that only looks at is_paused.
PauseEnd_IgnoresStop ==
    /\ pc = "paused"
    /\ ~is_paused
    /\ pause_offset' = pause_offset + (now - pause_start_time)
    /\ pc' = "song_time"
    /\ UNCHANGED << auxVars, note_map, current_row, speed_slider, transpose_spinbox,
                    ui_pc, fin_queue, inputVars, ui_playing, cfgVars,
                    flagVars, countdown_i, start_time, event_index,
                    pause_start_time, song_time, ks, now, obs, live_players >>

\* A pause loop that leaves with every key released.
PauseEnd_ReleasesKeys ==
    /\ pc = "paused"
    /\ ~(is_paused /\ is_running)
    /\ pause_offset' = pause_offset + (now - pause_start_time)
    /\ ks' = release_all_keys(ks)
    /\ pc' = "song_time"
    /\ UNCHANGED << auxVars, note_map, current_row, speed_slider, transpose_spinbox,
                    ui_pc, fin_queue, inputVars, ui_playing, cfgVars,
                    flagVars, countdown_i, start_time, event_index,
                    pause_start_time, song_time, now, obs, live_players >>

\* lines 197-198: the worker leaves the sleep loop once it is resumed or
\* stopped
PauseEnd ==
    /\ pc = "paused"
    /\ ~(is_paused /\ is_running)
    /\ pause_offset' = pause_offset + (now - pause_start_time)
    /\ pc' = "song_time"
    /\ UNCHANGED << auxVars, note_map, current_row, speed_slider, transpose_spinbox,
                    ui_pc, fin_queue, inputVars, ui_playing, cfgVars,
                    flagVars, countdown_i, start_time, event_index,
                    pause_start_time, song_time, ks, now, obs, live_players >>

\* lines 200-203
ComputeSongTime ==
    /\ pc = "song_time"
    /\ song_time' = SongTimeNow
    /\ pc' = "wait"
    /\ UNCHANGED << auxVars, note_map, current_row, speed_slider, transpose_spinbox,
                    ui_pc, fin_queue, inputVars, ui_playing, cfgVars,
                    flagVars, countdown_i, start_time, event_index,
                    pause_offset, pause_start_time, ks, now, obs, live_players >>

\* lines 205-207: one test of the inner wait loop
WaitTimestamp ==
    /\ pc = "wait"
    /\ IF Before(song_time, events[event_index + 1].timestamp)
       THEN IF ~is_running
            THEN pc' = "check_stop" /\ song_time' = song_time
            ELSE pc' = pc /\ song_time' = SongTimeNow
       ELSE pc' = "check_stop" /\ song_time' = song_time
    /\ UNCHANGED << auxVars, note_map, current_row, speed_slider, transpose_spinbox,
                    ui_pc, fin_queue, inputVars, ui_playing, cfgVars,
                    flagVars, countdown_i, start_time, event_index,
                    pause_offset, pause_start_time, ks, now, obs, live_players >>

\* A line 208 that goes on to the dispatch whatever is_running is.
CheckStop_NoCheck ==
    /\ pc = "check_stop"
    /\ pc' = "dispatch"
    /\ UNCHANGED << auxVars, note_map, current_row, speed_slider, transpose_spinbox,
                    ui_pc, fin_queue, inputVars, ui_playing, cfgVars,
                    flagVars, locVars, ks, now, obs, live_players >>

\* line 208
CheckStop ==
    /\ pc = "check_stop"
    /\ pc' = IF ~is_running THEN "cleanup" ELSE "dispatch"
    /\ UNCHANGED << auxVars, note_map, current_row, speed_slider, transpose_spinbox,
                    ui_pc, fin_queue, inputVars, ui_playing, cfgVars,
                    flagVars, locVars, ks, now, obs, live_players >>

\* A dispatch that leaves the cursor where it was.
Dispatch_NoAdvance ==
    /\ pc = "dispatch"
    /\ ks' = process_midi_message(ks, note_map, events[event_index + 1].msg,
                                  transpose)
    /\ obs' = [obs EXCEPT !.dispatch_log = Append(@, event_index + 1),
                          !.progress = event_index + 1,
                          !.late_dispatch = IF is_running THEN @ ELSE @ + 1]
    /\ pc' = "loop"
    /\ UNCHANGED << auxVars, note_map, current_row, speed_slider, transpose_spinbox,
                    ui_pc, fin_queue, inputVars, ui_playing, cfgVars,
                    flagVars, locVars, now, live_players >>

\* lines 210-211
Dispatch ==
    /\ pc = "dispatch"
    /\ ks' = process_midi_message(ks, note_map, events[event_index + 1].msg,
                                  transpose)
    /\ obs' = [obs EXCEPT !.dispatch_log = Append(@, event_index + 1),
                          !.progress = event_index + 1,
                          !.late_dispatch = IF is_running THEN @ ELSE @ + 1]
    /\ event_index' = event_index + 1
    /\ pc' = "loop"
    /\ UNCHANGED << auxVars, note_map, current_row, speed_slider, transpose_spinbox,
                    ui_pc, fin_queue, inputVars, ui_playing, cfgVars,
                    flagVars, countdown_i, start_time, pause_offset,
                    pause_start_time, song_time, now, live_players >>

\* line 213: self._release_all_keys(); self.finished.emit()
Cleanup ==
    /\ pc = "cleanup"
    /\ ks' = release_all_keys(ks)
    /\ obs' = [obs EXCEPT !.release_all_count = @ + 1,
                          !.finished_count = @ + 1]
    /\ fin_queue' = Append(fin_queue,
                           [user_stop |-> obs.stop_midi /\ event_index < Len(events)])
    /\ live_players' = live_players - 1
    /\ pc' = "done"
    /\ LocalsGone
    /\ UNCHANGED << auxVars, note_map, current_row, speed_slider, transpose_spinbox,
                    ui_pc, inputVars, ui_playing, cfgVars, flagVars >>

\* time.perf_counter() advances while a worker is between line 193 and its
\* exit
Tick ==
    /\ pc \in {"loop", "check_pause", "paused", "song_time", "wait",
               "check_stop", "dispatch"}
    /\ now < MaxNow
    /\ now' = now + 1
    /\ UNCHANGED << auxVars, note_map, current_row, speed_slider, transpose_spinbox,
                    ui_pc, fin_queue, inputVars, ui_playing, pc,
                    cfgVars, flagVars, locVars, ks, obs, live_players >>

----------------------------------------------------------------------------
(* MidiInputThread.run                                                     *)

InputMsgs == {NoteOn(53, 80), NoteOff(53)}

\* line 272: active_notes.clear(); note_event.emit({});
\* log_message.emit("Stopped listening.")
InputExit(how) ==
    /\ input_pc' = "done"
    /\ input_notes' = {}
    /\ input_obs' = [input_obs EXCEPT !.empty_snapshots = @ + 1,
                                      !.stopped_logs = @ + 1,
                                      !.exit_by = how]

\* A loop head that handles the message whatever is_running is.
InputMessage_NoCheck ==
    /\ input_pc = "listen"
    /\ input_pc' = "handle"
    /\ UNCHANGED << auxVars, note_map, current_row, speed_slider, transpose_spinbox,
                    ui_pc, fin_queue, input_is_running, input_notes,
                    input_obs, ui_playing, threadVars >>

\* lines 264-265: a message arrives on the port; the worker leaves the loop
\* if is_running is False (then line 272)
InputMessage ==
    /\ input_pc = "listen"
    /\ IF ~input_is_running
       THEN InputExit("break")
       ELSE /\ input_pc' = "handle"
            /\ UNCHANGED << input_notes, input_obs >>
    /\ UNCHANGED << auxVars, note_map, current_row, speed_slider, transpose_spinbox,
                    ui_pc, fin_queue, input_is_running, ui_playing,
                    threadVars >>

\* lines 266-269: the message is logged and applied, the snapshot emitted
InputHandle ==
    /\ input_pc = "handle"
    /\ \E msg \in InputMsgs :
         input_notes' = IF msg.type = "note_on" /\ msg.velocity > 0
                        THEN input_notes \cup {msg.note}
                        ELSE input_notes \ {msg.note}
    /\ input_pc' = "listen"
    /\ UNCHANGED << auxVars, note_map, current_row, speed_slider, transpose_spinbox,
                    ui_pc, fin_queue, input_is_running, input_obs, ui_playing,
                    threadVars >>

\* line 271: the port fails, then line 272
InputError ==
    /\ input_pc = "listen"
    /\ InputExit("error")
    /\ UNCHANGED << auxVars, note_map, current_row, speed_slider, transpose_spinbox,
                    ui_pc, fin_queue, input_is_running, ui_playing,
                    threadVars >>

----------------------------------------------------------------------------
(* MidiKeyboardApp: the handlers run on the UI thread, one at a time; a    *)
(* handler blocked in QThread.wait() keeps the UI thread (ui_pc) until the *)
(* worker has left run().                                                  *)

\* start_playback, lines 458-465: a new MidiPlayerThread for the file of
\* playlist row `row` is constructed and started; the keyboard keeps its
\* physical state, the clock is read from the creation on.
CreateThread(row) ==
    /\ pc' = "countdown"
    /\ events' = Playlist[row]
    /\ default_sustain_on' = ~HasSustain(Playlist[row])
    /\ is_running' = TRUE
    /\ is_paused' = FALSE
    /\ speed_multiplier' = speed_slider
    /\ transpose' = transpose_spinbox
    /\ countdown_i' = 3
    /\ start_time' = 0 /\ event_index' = 0 /\ pause_offset' = 0
    /\ pause_start_time' = 0 /\ song_time' = 0
    /\ ks' = KeyState0(ks.held)
    /\ now' = 0
    /\ obs' = Obs0
    /\ live_players' = live_players + 1
    /\ ui_playing' = TRUE
    /\ ui_pc' = "idle"

\* A start_playback that does not stop and join the previous worker.
StartPlaybackPlayer_NoJoin(row) == CreateThread(row)

\* start_playback, line 457 onwards
StartPlaybackPlayer(row) ==
    IF PlayerRunning
    THEN /\ is_running' = FALSE
         /\ ui_pc' = "sp_player_wait"
         /\ UNCHANGED << pc, cfgVars, is_paused, speed_multiplier, transpose,
                         locVars, ks, live_players, now, obs, ui_playing >>
    ELSE CreateThread(row)

\* start_playback, from line 456 (toggle_midi_input(False), lines 587-588)
StartPlayback(row) ==
    IF input_pc # "none"
    THEN /\ input_is_running' = FALSE
         /\ ui_pc' = "sp_input_wait"
         /\ UNCHANGED << input_pc, input_notes, input_obs, threadVars,
                         ui_playing >>
    ELSE /\ StartPlaybackPlayer(row)
         /\ UNCHANGED inputVars

\* the input worker has exited: toggle_midi_input(False) returns into
\* start_playback
StartPlaybackInputJoined ==
    /\ ui_pc = "sp_input_wait"
    /\ input_pc = "done"
    /\ input_pc' = "none"
    /\ input_obs' = InputObs0
    /\ StartPlaybackPlayer(current_row)
    /\ UNCHANGED << auxVars, note_map, current_row, speed_slider, transpose_spinbox,
                    fin_queue, input_is_running, input_notes >>

\* the previous playback worker has exited: wait() of line 457 returns
StartPlaybackPlayerJoined ==
    /\ ui_pc = "sp_player_wait"
    /\ pc = "done"
    /\ CreateThread(current_row)
    /\ UNCHANGED << auxVars, note_map, current_row, speed_slider, transpose_spinbox,
                    fin_queue, inputVars >>

\* Play button (enabled by update_button_states): play_midi, lines 446-453
PlayMidi ==
    /\ ui_pc = "idle"
    /\ ~ui_playing
    /\ current_row # 0
    /\ Len(fin_queue) < MaxQueue
    /\ StartPlayback(current_row)
    /\ UNCHANGED << auxVars, note_map, current_row, speed_slider, transpose_spinbox,
                    fin_queue >>

\* the user selects a playlist row (the list is enabled when not playing):
\* on_playlist_selection_changed, lines 428-435
SelectRow ==
    /\ ui_pc = "idle"
    /\ ~ui_playing
    /\ \E r \in DOMAIN Playlist : r # current_row /\ current_row' = r
    /\ ui_playing' = PlayerRunning
    /\ UNCHANGED << auxVars, note_map, speed_slider, transpose_spinbox, ui_pc,
                    fin_queue, inputVars, threadVars >>

\* Pause button: toggle_pause, lines 541-544, with pause() / resume()
TogglePause ==
    /\ ui_pc = "idle"
    /\ ui_playing
    /\ PlayerRunning
    /\ is_paused' = ~is_paused
    /\ UNCHANGED << auxVars, note_map, current_row, speed_slider, transpose_spinbox,
                    ui_pc, fin_queue, inputVars, ui_playing, pc,
                    cfgVars, is_running, speed_multiplier, transpose, locVars,
                    ks, now, obs, live_players >>

\* speed_changed, lines 564-566
SpeedChanged ==
    /\ ui_pc = "idle"
    /\ \E v \in SpeedValues :
         /\ v # speed_slider
         /\ speed_slider' = v
         /\ speed_multiplier' = IF PlayerRunning THEN v ELSE speed_multiplier
    /\ UNCHANGED << auxVars, note_map, current_row, transpose_spinbox, ui_pc, fin_queue,
                    inputVars, ui_playing, pc, cfgVars, is_running,
                    is_paused, transpose, locVars, ks, now, obs, live_players >>

\* transpose_changed, lines 568-570
TransposeChanged ==
    /\ ui_pc = "idle"
    /\ \E t \in TransposeValues :
         /\ t # transpose_spinbox
         /\ transpose_spinbox' = t
         /\ transpose' = IF PlayerRunning THEN t ELSE transpose
    /\ obs' = IF PlayerRunning THEN [obs EXCEPT !.transposed = TRUE] ELSE obs
    /\ UNCHANGED << auxVars, note_map, current_row, speed_slider, ui_pc, fin_queue,
                    inputVars, ui_playing, pc, cfgVars, is_running,
                    is_paused, speed_multiplier, locVars, ks, now, live_players >>

\* Stop button: stop_midi, lines 546-548, up to the wait()
StopMidi ==
    /\ ui_pc = "idle"
    /\ ui_playing
    /\ IF PlayerRunning
       THEN /\ is_running' = FALSE
            /\ obs' = [obs EXCEPT !.stop_midi = TRUE]
            /\ ui_pc' = "stop_wait"
       ELSE UNCHANGED << is_running, obs, ui_pc >>
    /\ UNCHANGED << auxVars, note_map, current_row, speed_slider, transpose_spinbox,
                    fin_queue, inputVars, ui_playing, pc, cfgVars,
                    is_paused, speed_multiplier, transpose, locVars, ks, now, live_players >>

\* stop_midi: wait() returns, then on_playback_finished(is_stopped=True),
\* lines 559-562
StopMidiJoined ==
    /\ ui_pc = "stop_wait"
    /\ pc = "done"
    /\ ui_playing' = PlayerRunning
    /\ ui_pc' = "idle"
    /\ UNCHANGED << auxVars, note_map, current_row, speed_slider, transpose_spinbox,
                    fin_queue, inputVars, threadVars >>

\* midi_input_combo.currentText(): empty when no input device is listed
Ports == {"", "port"}

\* toggle_midi_input(True), lines 582-585
ConnectInput ==
    \E port \in Ports :
        IF port = ""
        THEN UNCHANGED inputVars
        ELSE /\ input_pc' = "listen"
             /\ input_is_running' = TRUE
             /\ input_notes' = {}
             /\ input_obs' = InputObs0

\* Connect button, unchecked: toggle_midi_input(True), from line 581
ToggleMidiInputOn ==
    /\ ui_pc = "idle"
    /\ input_pc = "none"
    /\ IF PlayerRunning
       THEN \* stop_midi() up to its wait()
            /\ is_running' = FALSE
            /\ obs' = [obs EXCEPT !.stop_midi = TRUE]
            /\ ui_pc' = "connect_wait"
            /\ UNCHANGED << inputVars >>
       ELSE /\ ConnectInput
            /\ UNCHANGED << is_running, obs, ui_pc >>
    /\ UNCHANGED << auxVars, note_map, current_row, speed_slider, transpose_spinbox,
                    fin_queue, ui_playing, pc, cfgVars, is_paused,
                    speed_multiplier, transpose, locVars, ks, now, live_players >>

\* toggle_midi_input(True): stop_midi returns (wait(), then
\* on_playback_finished(is_stopped=True)) and the input worker is started
ToggleMidiInputOnJoined ==
    /\ ui_pc = "connect_wait"
    /\ pc = "done"
    /\ ui_playing' = PlayerRunning
    /\ ConnectInput
    /\ ui_pc' = "idle"
    /\ UNCHANGED << auxVars, note_map, current_row, speed_slider, transpose_spinbox,
                    fin_queue, threadVars >>

\* Connect button, checked: toggle_midi_input(False), line 587 up to wait()
ToggleMidiInputOff ==
    /\ ui_pc = "idle"
    /\ input_pc # "none"
    /\ input_is_running' = FALSE
    /\ ui_pc' = "disconnect_wait"
    /\ UNCHANGED << auxVars, note_map, current_row, speed_slider, transpose_spinbox,
                    fin_queue, input_pc, input_notes, input_obs, ui_playing,
                    threadVars >>

\* toggle_midi_input(False): wait() returns, lines 587-588
ToggleMidiInputOffJoined ==
    /\ ui_pc = "disconnect_wait"
    /\ input_pc = "done"
    /\ input_pc' = "none"
    /\ input_obs' = InputObs0
    /\ ui_pc' = "idle"
    /\ UNCHANGED << auxVars, note_map, current_row, speed_slider, transpose_spinbox,
                    fin_queue, input_is_running, input_notes, ui_playing,
                    threadVars >>

\* The UI thread delivers a queued 'finished' signal:
\* on_playback_finished(is_stopped=False), lines 550-562
OnPlaybackFinished ==
    /\ ui_pc = "idle"
    /\ fin_queue # << >>
    /\ fin_queue' = Tail(fin_queue)
    /\ IF current_row # 0 /\ current_row + 1 <= Len(Playlist)
       THEN /\ current_row' = current_row + 1
            /\ StartPlayback(current_row + 1)
       ELSE /\ ui_playing' = PlayerRunning
            /\ UNCHANGED << current_row, ui_pc, inputVars, threadVars >>
    /\ UNCHANGED << auxVars, note_map, speed_slider, transpose_spinbox >>

\* closeEvent, line 610 up to the wait(), then line 611
CloseInput ==
    IF input_pc # "none"
    THEN /\ input_is_running' = FALSE
         /\ ui_pc' = "close_input_wait"
         /\ UNCHANGED << input_pc, input_notes, input_obs >>
    ELSE /\ ui_pc' = "closed"
         /\ UNCHANGED inputVars

\* the window is closed: closeEvent, line 609 up to the wait()
CloseEvent ==
    /\ ui_pc = "idle"
    /\ IF pc # "none"
       THEN /\ is_running' = FALSE
            /\ ui_pc' = "close_player_wait"
            /\ UNCHANGED inputVars
       ELSE /\ CloseInput
            /\ UNCHANGED is_running
    /\ UNCHANGED << auxVars, note_map, current_row, speed_slider, transpose_spinbox,
                    fin_queue, ui_playing, pc, cfgVars, is_paused,
                    speed_multiplier, transpose, locVars, ks, now, obs,
                    live_players >>

\* closeEvent: the wait() of line 609 returns
CloseEventPlayerJoined ==
    /\ ui_pc = "close_player_wait"
    /\ pc = "done"
    /\ CloseInput
    /\ UNCHANGED << auxVars, note_map, current_row, speed_slider, transpose_spinbox,
                    fin_queue, ui_playing, threadVars >>

\* closeEvent: the wait() of line 610 returns, then event.accept()
CloseEventInputJoined ==
    /\ ui_pc = "close_input_wait"
    /\ input_pc = "done"
    /\ ui_pc' = "closed"
    /\ UNCHANGED << auxVars, note_map, current_row, speed_slider, transpose_spinbox,
                    fin_queue, inputVars, ui_playing, threadVars >>

----------------------------------------------------------------------------
(* MidiLoadingThread.run: the compilation of a merged message stream       *)
(* (mido.merge_tracks: each message carries its tick delta in .time) into  *)
(* the absolute-time event sequence, and the statistics.  Times are in     *)
(* microseconds.                                                           *)

SetTempo(t) == [type |-> "set_tempo", tempo |-> t]
EndOfTrack  == [type |-> "end_of_track"]
Volume(v)   == [type |-> "control_change", note |-> 0, velocity |-> 0,
                control |-> 7, value |-> v]

\* msg.is_meta
IsMeta(msg) == msg.type \in {"set_tempo", "end_of_track"}

\* a message of the merged stream with its tick delta
Timed(d, m) == [time |-> d, msg |-> m]

\* mido.tick2second(tick, ticks_per_beat, tempo), in microseconds
tick2second(tick, ticks_per_beat, tempo) == (tick * tempo) \div ticks_per_beat

\* lines 159-165: the note pairing of the statistics, from event i on
RECURSIVE PairNotes(_, _, _, _)
PairNotes(evs, i, open_notes, notes) ==
    IF i > Len(evs) THEN notes
    ELSE LET t == evs[i].timestamp
             msg == evs[i].msg
         IN IF msg.type = "note_on" /\ msg.velocity > 0
            THEN PairNotes(evs, i + 1,
                           MapPut(open_notes, msg.note,
                                  [start_time |-> t, velocity |-> msg.velocity]),
                           notes)
            ELSE IF msg.type \in {"note_off", "note_on"}
                    /\ msg.note \in DOMAIN open_notes
            THEN LET start == open_notes[msg.note]
                     duration == t - start.start_time
                 IN PairNotes(evs, i + 1, MapDel(open_notes, msg.note),
                              IF duration > 0
                              THEN Append(notes,
                                          [start_time |-> start.start_time,
                                           duration |-> duration,
                                           note |-> msg.note,
                                           velocity |-> start.velocity])
                              ELSE notes)
            ELSE PairNotes(evs, i + 1, open_notes, notes)

\* lines 166-171: stats stays {} when no note was paired
StatsOf(notes) ==
    IF notes = << >> THEN EmptyMap
    ELSE [note_count |-> Len(notes)]

(* The locals of run().                                                    *)
(*   pc              "none", "merge" (the loop of line 152), "stats"       *)
(*                   (lines 158-171), "done" (loading_complete emitted)    *)
(*   stream          mido.merge_tracks(mid.tracks)                         *)
(*   declared_tpb    mid.ticks_per_beat                                    *)
(*   next            index of the next message of the loop of line 152     *)
(*   event_src       for each compiled event, the index of its message in  *)
(*                   the stream (kept by the observer)                     *)
Loader0 ==
    [pc |-> "none", stream |-> << >>, declared_tpb |-> 0, next |-> 1,
     absolute_time |-> 0, ticks_per_beat |-> 0, tempo |-> 0,
     events |-> << >>, has_sustain |-> FALSE, notes |-> << >>,
     stats |-> EmptyMap, event_src |-> << >>]

\* lines 150-151
LoaderStart(stream, tpb) ==
    [Loader0 EXCEPT !.pc = "merge", !.stream = stream, !.declared_tpb = tpb,
                    !.ticks_per_beat = IF tpb > 0 THEN tpb ELSE 480,
                    !.tempo = 500000]

\* the application's own variables
appVars == << note_map, current_row, speed_slider, transpose_spinbox, ui_pc,
              fin_queue, inputVars, ui_playing, threadVars >>

\* A loop body that also appends the meta messages.
LoadMessage_KeepsMeta ==
    /\ loader.pc = "merge"
    /\ loader.next <= Len(loader.stream)
    /\ LET m == loader.stream[loader.next]
           t == loader.absolute_time
                  + tick2second(m.time, loader.ticks_per_beat, loader.tempo)
       IN loader' = [loader EXCEPT
             !.absolute_time = t,
             !.tempo = IF m.msg.type = "set_tempo" THEN m.msg.tempo ELSE @,
             !.events = Append(@, Ev(t, m.msg)),
             !.event_src = Append(@, loader.next),
             !.next = @ + 1]
    /\ UNCHANGED << appVars, dialog, export, dev >>

\* A loop body that switches the tempo before it converts the delta.
LoadMessage_TempoFirst ==
    /\ loader.pc = "merge"
    /\ loader.next <= Len(loader.stream)
    /\ LET m == loader.stream[loader.next]
           tempo1 == IF m.msg.type = "set_tempo" THEN m.msg.tempo
                     ELSE loader.tempo
           t == loader.absolute_time
                  + tick2second(m.time, loader.ticks_per_beat, tempo1)
       IN loader' = [loader EXCEPT
             !.absolute_time = t,
             !.tempo = tempo1,
             !.events = IF ~IsMeta(m.msg) THEN Append(@, Ev(t, m.msg)) ELSE @,
             !.event_src = IF ~IsMeta(m.msg) THEN Append(@, loader.next)
                           ELSE @,
             !.has_sustain = @ \/ (~IsMeta(m.msg) /\ IsSustainMsg(m.msg)),
             !.next = @ + 1]
    /\ UNCHANGED << appVars, dialog, export, dev >>

\* lines 152-157: one iteration of the loop over the merged stream
LoadMessage ==
    /\ loader.pc = "merge"
    /\ loader.next <= Len(loader.stream)
    /\ LET m == loader.stream[loader.next]
           t == loader.absolute_time
                  + tick2second(m.time, loader.ticks_per_beat, loader.tempo)
       IN loader' = [loader EXCEPT
             !.absolute_time = t,
             !.tempo = IF m.msg.type = "set_tempo" THEN m.msg.tempo ELSE @,
             !.events = IF ~IsMeta(m.msg) THEN Append(@, Ev(t, m.msg)) ELSE @,
             !.event_src = IF ~IsMeta(m.msg) THEN Append(@, loader.next)
                           ELSE @,
             !.has_sustain = @ \/ (~IsMeta(m.msg) /\ IsSustainMsg(m.msg)),
             !.next = @ + 1]
    /\ UNCHANGED << appVars, dialog, export, dev >>

\* the loop of line 152 is exhausted; lines 158-171
LoadStats ==
    /\ loader.pc = "merge"
    /\ loader.next > Len(loader.stream)
    /\ LET notes == PairNotes(loader.events, 1, EmptyMap, << >>)
       IN loader' = [loader EXCEPT !.pc = "stats", !.notes = notes,
                                   !.stats = StatsOf(notes)]
    /\ UNCHANGED << appVars, dialog, export, dev >>

\* line 172: loading_complete.emit(...)
LoadingComplete ==
    /\ loader.pc = "stats"
    /\ loader' = [loader EXCEPT !.pc = "done"]
    /\ UNCHANGED << appVars, dialog, export, dev >>

----------------------------------------------------------------------------
(* The key map editor (KeyMappingDialog), opened modally by                *)
(* open_key_map_editor.                                                    *)

\* no dialog; selected = 0 stands for an empty selection
Dialog0 == [open |-> FALSE, note_map |-> EmptyMap, selected |-> 0]

\* event.text() of the keys pressed in the table; "" is a key without text
KeyTexts == {"", "u", "x"}

\* the rows the user selects: 64 and 98 share u in DEFAULT_NOTE_MAP
EditRows == {53, 64, 98}

\* get_note_map (line 653): the entries with a non-empty character
get_note_map(d) ==
    LET kept == {k \in DOMAIN d.note_map : d.note_map[k] # ""}
    IN [k \in kept |-> d.note_map[k]]

\* A key press that assigns the character and leaves its other holders.
table_key_press_event_KeepsOwners(d, text) ==
    IF d.selected = 0 \/ text = "" THEN d
    ELSE [d EXCEPT !.note_map = [@ EXCEPT ![d.selected] = text]]

\* table_key_press_event (lines 638-645): every row of the table is a key of
\* note_map, so get_row_for_note never returns -1
table_key_press_event(d, text) ==
    IF d.selected = 0 \/ text = "" THEN d
    ELSE LET note_num == d.selected
             cleared == [num \in DOMAIN d.note_map |->
                           IF d.note_map[num] = text /\ num # note_num
                           THEN "" ELSE d.note_map[num]]
         IN [d EXCEPT !.note_map = [cleared EXCEPT ![note_num] = text]]

dialogFrame == << current_row, speed_slider, transpose_spinbox, ui_pc,
                 fin_queue, inputVars, ui_playing, threadVars, loader,
                 export, dev >>

\* open_key_map_editor, line 573: KeyMappingDialog(self.note_map, self)
OpenKeyMapEditor ==
    /\ ~dialog.open
    /\ dialog' = [open |-> TRUE, note_map |-> note_map, selected |-> 0]
    /\ UNCHANGED << note_map, dialogFrame >>

\* the user selects a row of the table (single selection of whole rows)
DialogSelectRow ==
    /\ dialog.open
    /\ \E n \in DOMAIN dialog.note_map \cap EditRows :
         dialog' = [dialog EXCEPT !.selected = n]
    /\ UNCHANGED << note_map, dialogFrame >>

TableKeyPress ==
    /\ dialog.open
    /\ \E text \in KeyTexts : dialog' = table_key_press_event(dialog, text)
    /\ UNCHANGED << note_map, dialogFrame >>

\* restore_defaults (line 652); populate_table rebuilds the rows
RestoreDefaults ==
    /\ dialog.open
    /\ dialog' = [dialog EXCEPT !.note_map = DEFAULT_NOTE_MAP, !.selected = 0]
    /\ UNCHANGED << note_map, dialogFrame >>

\* Save: exec_() returns Accepted, line 574
DialogAccept ==
    /\ dialog.open
    /\ note_map' = get_note_map(dialog)
    /\ dialog' = Dialog0
    /\ UNCHANGED dialogFrame

\* Cancel: exec_() returns Rejected
DialogReject ==
    /\ dialog.open
    /\ dialog' = Dialog0
    /\ UNCHANGED << note_map, dialogFrame >>

----------------------------------------------------------------------------
(* The derived text of generate_and_display_text.                          *)

\* loaded: midi_infos has an entry for the current item; events: its
\* 'events'; text: mapping_text_edit; status: the last status message
Export0 == [loaded |-> FALSE, events |-> << >>, text |-> "", status |-> "ready"]

\* ord() of the characters of the key maps
CodePoint ==
    ("Q" :> 81) @@ ("_" :> 95) @@ ("q" :> 113) @@ ("u" :> 117) @@
    ("w" :> 119) @@ ("x" :> 120)

\* lines 485-488: notes_by_time as the list of its items, in insertion order
RECURSIVE GroupByTime(_, _, _)
GroupByTime(evs, i, items) ==
    IF i > Len(evs) THEN items
    ELSE LET e == evs[i]
             at == {j \in DOMAIN items : items[j].timestamp = e.timestamp}
         IN IF e.msg.type = "note_on" /\ e.msg.velocity > 0
            THEN IF at = {}
                 THEN GroupByTime(evs, i + 1,
                        Append(items, [timestamp |-> e.timestamp,
                                       notes |-> << e.msg.note >>]))
                 ELSE LET j == CHOOSE j \in at : TRUE
                      IN GroupByTime(evs, i + 1,
                           [items EXCEPT ![j].notes = Append(@, e.msg.note)])
            ELSE GroupByTime(evs, i + 1, items)

\* sorted(notes_by_time.keys()): the items in ascending order of timestamp
RECURSIVE SortedItems(_)
SortedItems(items) ==
    IF items = << >> THEN << >>
    ELSE LET rest == SortedItems(Tail(items))
             h == Head(items)
             before == SelectSeq(rest, LAMBDA x : x.timestamp < h.timestamp)
             after == SelectSeq(rest, LAMBDA x : x.timestamp >= h.timestamp)
         IN before \o << h >> \o after

\* line 493: the characters of the notes that are keys of note_map
RECURSIVE MappedChars(_, _)
MappedChars(notes, nm) ==
    IF notes = << >> THEN << >>
    ELSE IF Head(notes) \in DOMAIN nm
         THEN << nm[Head(notes)] >> \o MappedChars(Tail(notes), nm)
         ELSE MappedChars(Tail(notes), nm)

\* sorted(mapped_chars): ascending code points, stable
RECURSIVE SortedChars(_)
SortedChars(chars) ==
    IF chars = << >> THEN << >>
    ELSE LET rest == SortedChars(Tail(chars))
             h == Head(chars)
             before == SelectSeq(rest, LAMBDA c : CodePoint[c] < CodePoint[h])
             after == SelectSeq(rest, LAMBDA c : CodePoint[c] >= CodePoint[h])
         IN before \o << h >> \o after

\* sep.join(parts)
RECURSIVE Join(_, _)
Join(sep, parts) ==
    IF parts = << >> THEN ""
    ELSE IF Len(parts) = 1 THEN parts[1]
    ELSE parts[1] \o sep \o Join(sep, Tail(parts))

\* Output parts whose clusters keep the order of the events.
OutputParts_Unsorted(items, nm) ==
    LET RECURSIVE parts(_)
        parts(its) ==
          IF its = << >> THEN << >>
          ELSE LET mapped_chars == MappedChars(Head(its).notes, nm)
               IN IF mapped_chars = << >> THEN parts(Tail(its))
                  ELSE IF Len(mapped_chars) = 1
                       THEN << mapped_chars[1] >> \o parts(Tail(its))
                  ELSE << "[" \o Join("", mapped_chars) \o "]" >>
                       \o parts(Tail(its))
    IN parts(items)

\* lines 492-499: output_parts
RECURSIVE OutputParts(_, _)
OutputParts(items, nm) ==
    IF items = << >> THEN << >>
    ELSE LET mapped_chars == MappedChars(Head(items).notes, nm)
             rest == OutputParts(Tail(items), nm)
         IN IF mapped_chars = << >> THEN rest
            ELSE IF Len(mapped_chars) = 1 THEN << mapped_chars[1] >> \o rest
            ELSE << "[" \o Join("", SortedChars(mapped_chars)) \o "]" >> \o rest

\* lines 485-501: final_text
final_text(evs, nm) ==
    Join(" ", OutputParts(SortedItems(GroupByTime(evs, 1, << >>)), nm))

exportFrame == << appVars, loader, dialog, dev >>

\* generate_and_display_text (lines 467-506)
GenerateAndDisplayText ==
    /\ export.status = "ready"
    /\ IF current_row = 0
       THEN export' = [export EXCEPT !.status = "select_file"]
       ELSE IF ~export.loaded
       THEN export' = [export EXCEPT !.status = "no_data"]
       ELSE export' = [export EXCEPT
                         !.text = final_text(export.events, note_map),
                         !.status = "complete"]
    /\ UNCHANGED exportFrame

----------------------------------------------------------------------------
(* Specification of the application.                                       *)

\* the state of the components next to the playback engine when the
\* application starts
AuxInit ==
    loader = Loader0 /\ dialog = Dialog0 /\ export = Export0 /\ dev = Dev0

\* MidiKeyboardApp.__init__: no playback worker, no input worker
AppInit ==
    /\ note_map = DEFAULT_NOTE_MAP
    /\ current_row = 0
    /\ speed_slider = 100
    /\ transpose_spinbox = 0
    /\ ui_pc = "idle"
    /\ fin_queue = << >>
    /\ input_pc = "none" /\ input_is_running = FALSE /\ input_notes = {}
    /\ input_obs = InputObs0
    /\ ui_playing = FALSE
    /\ pc = "none"
    /\ events = << >>
    /\ default_sustain_on = FALSE
    /\ is_running = FALSE /\ is_paused = FALSE
    /\ speed_multiplier = 100 /\ transpose = 0
    /\ countdown_i = 3
    /\ start_time = 0 /\ event_index = 0 /\ pause_offset = 0
    /\ pause_start_time = 0 /\ song_time = 0
    /\ ks = KeyState0({})
    /\ live_players = 0
    /\ now = 0
    /\ obs = Obs0

Init == AppInit /\ AuxInit

Next ==
    \/ Countdown \/ StartPlaying \/ LoopTest \/ CheckPause \/ PauseEnd
    \/ ComputeSongTime \/ WaitTimestamp \/ CheckStop \/ Dispatch \/ Cleanup
    \/ Tick
    \/ InputMessage \/ InputHandle \/ InputError
    \/ PlayMidi \/ StartPlaybackInputJoined \/ StartPlaybackPlayerJoined
    \/ SelectRow \/ TogglePause \/ SpeedChanged \/ TransposeChanged
    \/ StopMidi \/ StopMidiJoined
    \/ ToggleMidiInputOn \/ ToggleMidiInputOnJoined
    \/ ToggleMidiInputOff \/ ToggleMidiInputOffJoined
    \/ OnPlaybackFinished
    \/ CloseEvent \/ CloseEventPlayerJoined \/ CloseEventInputJoined

Spec == Init /\ [][Next]_vars

\* a started QThread keeps executing run(): one step of MidiPlayerThread.run
WorkerStep ==
    \/ Countdown \/ StartPlaying \/ LoopTest \/ CheckPause \/ PauseEnd
    \/ ComputeSongTime \/ WaitTimestamp \/ CheckStop \/ Dispatch \/ Cleanup

\* QThread.wait() on the playback worker returns once run() has returned
PlayerJoined ==
    \/ StopMidiJoined \/ StartPlaybackPlayerJoined
    \/ ToggleMidiInputOnJoined \/ CloseEventPlayerJoined

\* The handlers that start, pause, stop and join a playback worker, and the
\* clock
NextLive ==
    \/ WorkerStep \/ Tick
    \/ InputMessage \/ InputHandle \/ InputError
    \/ PlayMidi \/ StartPlaybackInputJoined \/ SelectRow \/ TogglePause
    \/ SpeedChanged
    \/ StopMidi \/ ToggleMidiInputOn \/ ToggleMidiInputOff
    \/ ToggleMidiInputOffJoined \/ OnPlaybackFinished
    \/ CloseEvent \/ CloseEventInputJoined
    \/ PlayerJoined

\* The application with a scheduler that keeps running the playback worker
\* and a wait() that returns when the worker is gone.
SpecLive ==
    Init /\ [][NextLive]_vars /\ WF_vars(WorkerStep) /\ WF_vars(PlayerJoined)

----------------------------------------------------------------------------
(* Specification of the compilation alone: one MidiLoadingThread compiles  *)
(* a merged stream of at most MaxStream messages.                          *)

\* Longest merged stream that is compiled.
MaxStream == 3

\* tick deltas (msg.time) and declared ticks-per-beat values
LoadDeltas == {0, 480}
TpbValues == {0, 240}

LoadMsgs ==
    {SetTempo(250000), EndOfTrack, NoteOn(60, 80), NoteOn(60, 0), NoteOff(60),
     Sustain(127), Volume(100)}

TimedMsgs == {Timed(d, m) : d \in LoadDeltas, m \in LoadMsgs}

Streams == UNION {[1..n -> TimedMsgs] : n \in 0..MaxStream}

\* MidiLoadingThread(path).start() for a file with any stream
InitCompile ==
    /\ AppInit
    /\ \E stream \in Streams, tpb \in TpbValues :
         loader = LoaderStart(stream, tpb)
    /\ dialog = Dialog0 /\ export = Export0 /\ dev = Dev0

NextCompile == LoadMessage \/ LoadStats \/ LoadingComplete

SpecCompile == InitCompile /\ [][NextCompile]_vars

----------------------------------------------------------------------------
(* Specification of the key map editor: any sequence of editing sessions   *)
(* on the application's map.                                               *)

InitDialog == AppInit /\ AuxInit

NextDialog ==
    \/ OpenKeyMapEditor \/ DialogSelectRow \/ TableKeyPress \/ RestoreDefaults
    \/ DialogAccept \/ DialogReject

SpecDialog == InitDialog /\ [][NextDialog]_vars

----------------------------------------------------------------------------
(* Specification of the text export: one generation from any compiled      *)
(* sequence and any of a few key maps.                                     *)

\* At most MaxExport events in the compiled sequence.
MaxExport == 3

ExportTimes == {0, 1}
ExportMsgs ==
    {NoteOn(n, 80) : n \in {35, 38, 53, 54}} \cup {NoteOn(53, 0), NoteOff(54)}

\* compiled sequences: timestamps never decrease
ExportEvents ==
    LET all == UNION {[1..n -> {Ev(t, m) : t \in ExportTimes, m \in ExportMsgs}]
                        : n \in 0..MaxExport}
    IN {evs \in all : \A i, j \in DOMAIN evs :
                         i < j => evs[i].timestamp <= evs[j].timestamp}

\* the built-in map and the map saved after giving note 53 the character x
ExportMaps ==
    {DEFAULT_NOTE_MAP,
     get_note_map(table_key_press_event(
        [open |-> TRUE, note_map |-> DEFAULT_NOTE_MAP, selected |-> 53], "x"))}

InitText ==
    /\ current_row \in {0, 1}
    /\ note_map \in ExportMaps
    /\ speed_slider = 100
    /\ transpose_spinbox = 0
    /\ ui_pc = "idle"
    /\ fin_queue = << >>
    /\ input_pc = "none" /\ input_is_running = FALSE /\ input_notes = {}
    /\ input_obs = InputObs0
    /\ ui_playing = FALSE
    /\ pc = "none"
    /\ events = << >>
    /\ default_sustain_on = FALSE
    /\ is_running = FALSE /\ is_paused = FALSE
    /\ speed_multiplier = 100 /\ transpose = 0
    /\ countdown_i = 3
    /\ start_time = 0 /\ event_index = 0 /\ pause_offset = 0
    /\ pause_start_time = 0 /\ song_time = 0
    /\ ks = KeyState0({})
    /\ live_players = 0
    /\ now = 0
    /\ obs = Obs0
    /\ loader = Loader0 /\ dialog = Dialog0 /\ dev = Dev0
    /\ \E evs \in ExportEvents, loaded \in BOOLEAN :
         export = [Export0 EXCEPT !.events = evs, !.loaded = loaded]

NextText == GenerateAndDisplayText

SpecText == InitText /\ [][NextText]_vars

----------------------------------------------------------------------------
(* Specification of the key emulation alone: any sequence of messages is   *)
(* dispatched to _process_midi_message of one worker, followed by any      *)
(* number of calls of _release_all_keys.                                   *)

KeyNotes == {35, 53, 54, 55, 64, 98, 106}

\* values of the transpose spin box (range -24..24, line 350)
KeyTransposes == {0, 1, 24}

KeyMsgs ==
    {NoteOn(n, 80) : n \in KeyNotes} \cup {NoteOn(n, 0) : n \in KeyNotes}
    \cup {NoteOff(n) : n \in KeyNotes} \cup {Sustain(0), Sustain(127)}

InitKeys ==
    /\ note_map = DEFAULT_NOTE_MAP
    /\ current_row = 1
    /\ speed_slider = 100
    /\ transpose_spinbox \in KeyTransposes
    /\ ui_pc = "idle"
    /\ fin_queue = << >>
    /\ input_pc = "none" /\ input_is_running = FALSE /\ input_notes = {}
    /\ input_obs = InputObs0
    /\ ui_playing = TRUE
    /\ pc = "keys"
    /\ events = << >>
    /\ default_sustain_on = TRUE
    /\ is_running = TRUE /\ is_paused = FALSE
    /\ speed_multiplier = 100 /\ transpose = transpose_spinbox
    /\ countdown_i = 0
    /\ start_time = 0 /\ event_index = 0 /\ pause_offset = 0
    /\ pause_start_time = 0 /\ song_time = 0
    /\ ks = KeyState0({})
    /\ live_players = 1
    /\ now = 0
    /\ obs = Obs0
    /\ AuxInit

\* self._process_midi_message(msg)
KeysDispatch ==
    /\ pc = "keys"
    /\ \E msg \in KeyMsgs :
         ks' = process_midi_message(ks, note_map, msg, transpose)
    /\ UNCHANGED << auxVars, note_map, current_row, speed_slider, transpose_spinbox,
                    ui_pc, fin_queue, inputVars, ui_playing, pc, cfgVars,
                    flagVars, locVars, live_players, now, obs >>

\* self._release_all_keys()
KeysReleaseAll ==
    /\ pc \in {"keys", "released"}
    /\ pc' = "released"
    /\ ks' = release_all_keys(ks)
    /\ UNCHANGED << auxVars, note_map, current_row, speed_slider, transpose_spinbox,
                    ui_pc, fin_queue, inputVars, ui_playing, cfgVars,
                    flagVars, locVars, live_players, now, obs >>

NextKeys == KeysDispatch \/ KeysReleaseAll

SpecKeys == InitKeys /\ [][NextKeys]_vars

----------------------------------------------------------------------------
(* Specification of the key emulation on a rejecting backend: the worker   *)
(* dispatches the events of a file and runs the cleanup, and in each call  *)
(* the backend rejects the actions on at most one key.                     *)

\* At most MaxDevice events in the file.
MaxDevice == 3

DeviceMsgs ==
    {NoteOn(53, 80), NoteOn(54, 80), NoteOff(53), Sustain(0), Sustain(127)}

DeviceFiles ==
    UNION {[1..n -> {Ev(0, m) : m \in DeviceMsgs}] : n \in 1..MaxDevice}

RejectSets == {{}, {"q"}, {KeyShift}, {KeySpace}}

InitDevice ==
    /\ note_map = DEFAULT_NOTE_MAP
    /\ current_row = 1
    /\ speed_slider = 100
    /\ transpose_spinbox = 0
    /\ ui_pc = "idle"
    /\ fin_queue = << >>
    /\ input_pc = "none" /\ input_is_running = FALSE /\ input_notes = {}
    /\ input_obs = InputObs0
    /\ ui_playing = TRUE
    /\ pc = "keys"
    /\ events \in DeviceFiles
    /\ default_sustain_on = FALSE
    /\ is_running = TRUE /\ is_paused = FALSE
    /\ speed_multiplier = 100 /\ transpose = 0
    /\ countdown_i = 0
    /\ start_time = 0 /\ event_index = 0 /\ pause_offset = 0
    /\ pause_start_time = 0 /\ song_time = 0
    /\ ks = KeyState0({})
    /\ live_players = 1
    /\ now = 0
    /\ obs = Obs0
    /\ AuxInit

deviceFrame ==
    << note_map, current_row, speed_slider, transpose_spinbox, ui_pc,
       fin_queue, inputVars, ui_playing, cfgVars, flagVars, countdown_i,
       start_time, pause_offset, pause_start_time, song_time, now,
       live_players, loader, dialog, export >>

\* lines 210-211: log_message.emit(...); self._process_midi_message(msg)
DeviceDispatch ==
    /\ pc = "keys"
    /\ event_index < Len(events)
    /\ \E rej \in RejectSets :
         LET k == process_midi_message_rej(ks, note_map,
                     events[event_index + 1].msg, transpose, rej)
         IN /\ ks' = k
            /\ dev' = [rejected |-> dev.rejected + Rejections(k),
                       log_lines |-> dev.log_lines + 1]
    /\ obs' = [obs EXCEPT !.dispatch_log = Append(@, event_index + 1),
                          !.progress = event_index + 1]
    /\ event_index' = event_index + 1
    /\ UNCHANGED << pc, deviceFrame >>

\* line 213: self._release_all_keys()
DeviceCleanup ==
    /\ pc = "keys"
    /\ event_index = Len(events)
    /\ \E rej \in RejectSets :
         LET k == release_all_keys_rej(ks, rej)
         IN /\ ks' = k
            /\ dev' = [dev EXCEPT !.rejected = @ + Rejections(k)]
    /\ obs' = [obs EXCEPT !.release_all_count = @ + 1]
    /\ pc' = "released"
    /\ UNCHANGED << event_index, deviceFrame >>

NextDevice == DeviceDispatch \/ DeviceCleanup

SpecDevice == InitDevice /\ [][NextDevice]_vars

----------------------------------------------------------------------------
(* Properties.                                                             *)

\* the base key of a character
BaseOf(char) == IF char \in DOMAIN SHIFT_MAP THEN SHIFT_MAP[char] ELSE char

\* the notes with a pressed-key record whose mapped character needs Shift
ShiftedPressed ==
    {n \in PressedNotes(ks.pressed_keys) :
        NoteMapGet(note_map, n) \in DOMAIN SHIFT_MAP}

\* the base keys (not Shift, not space) that are physically down
HeldBase == ks.held \ {KeyShift, KeySpace}

PressShift == [op |-> "press", key |-> KeyShift, was_held |-> FALSE]
ReleaseShift == [op |-> "release", key |-> KeyShift, was_held |-> TRUE]

C2_HeldEqualsBasesOfNotesOn ==
    HeldBase = {BaseOf(note_map[n]) : n \in ks.notes_on \cap DOMAIN note_map}

\* C3: no press action is emitted for a key that is already down.
C3_NoPressOfHeldKey ==
    \A i \in DOMAIN ks.actions :
        ks.actions[i].op = "press" => ~ks.actions[i].was_held

\* C4: when the worker has emitted 'finished', pressed_keys and active_notes
\* are empty and no base key, Shift or space is down.
C4_NoStuckKeys ==
    pc = "done" =>
        /\ ks.pressed_keys = << >>
        /\ ks.active_notes = EmptyMap
        /\ ks.held = {}
        /\ ~ks.is_space_pressed

\* a session stopped by stop_midi after some but not all events, whose
\* cleanup released a base key that was down
C4_Witness ==
    /\ pc = "done"
    /\ obs.stop_midi
    /\ obs.dispatch_log # << >>
    /\ Len(obs.dispatch_log) < Len(events)
    /\ \E i \in DOMAIN ks.actions :
         /\ ks.actions[i].op = "release"
         /\ ks.actions[i].was_held
         /\ ks.actions[i].key \notin {KeyShift, KeySpace}

\* C5: on every exit path of run(), _release_all_keys has run exactly once.
C5_ReleaseAllExactlyOnce ==
    pc = "done" => obs.release_all_count = 1

\* C6: while is_paused stays set, no event is dispatched.
C6_NoDispatchWhilePaused ==
    [][(is_paused /\ is_paused') => obs'.dispatch_log = obs.dispatch_log]_vars

\* C7: the i-th dispatch of a session is of the i-th event, and the progress
\* value emitted after it is i; between dispatches the cursor is the number
\* of events dispatched.
C7_DispatchInOrder ==
    /\ obs.dispatch_log = [i \in 1 .. Len(obs.dispatch_log) |-> i]
    /\ obs.progress = Len(obs.dispatch_log)
    /\ Len(obs.dispatch_log) <= Len(events)
    /\ pc \in {"loop", "check_pause", "paused", "song_time", "wait",
               "check_stop", "dispatch", "cleanup"}
          => event_index = Len(obs.dispatch_log)

\* all events of FileA (with its timestamp ties) dispatched in a session
\* that was paused and resumed
C7_Witness ==
    /\ events = FileA
    /\ Len(obs.dispatch_log) = Len(FileA)
    /\ pause_offset > 0

C9_NoAutoAdvanceAfterStop ==
    [][(fin_queue # << >> /\ fin_queue' = Tail(fin_queue)
        /\ Head(fin_queue).user_stop) => current_row' = current_row]_vars

\* C10: 'finished' is emitted exactly once per session and only after
\* _release_all_keys, and on_playback_finished is not invoked with
\* is_stopped=False for a session ended by stop_midi.
C10_TerminalSignal ==
    /\ [](/\ obs.finished_count <= 1
          /\ pc = "done" => obs.finished_count = 1
          /\ obs.finished_count > 0 => obs.release_all_count > 0)
    /\ [][~(fin_queue # << >> /\ fin_queue' = Tail(fin_queue)
            /\ Head(fin_queue).user_stop)]_vars

----------------------------------------------------------------------------
\* the UI thread is blocked in player_thread.wait()
PlayerWaits == {"stop_wait", "connect_wait", "sp_player_wait",
                "close_player_wait"}

\* C11: once stop() has set is_running to False the worker leaves run() and
\* has emitted 'finished', whatever it was doing, and the caller blocked in
\* wait() on the worker proceeds; is_running does not become True again
\* while that worker is running.  A stopped worker always has its stopper
\* blocked in wait(), and the stopper only proceeds once the worker has
\* left run() and emitted 'finished': that the stopper eventually proceeds
\* says that the worker eventually leaves.
C11_CancellationIsLive ==
    /\ [][(PlayerRunning /\ ~is_running) => ~is_running']_vars
    /\ []((PlayerRunning /\ ~is_running) => ui_pc \in PlayerWaits)
    /\ [][(ui_pc \in PlayerWaits /\ ui_pc' \notin PlayerWaits) =>
            (pc = "done" /\ obs.finished_count = 1)]_vars
    /\ (ui_pc \in PlayerWaits) ~> (ui_pc \notin PlayerWaits)

\* a worker that was stopped while paused has left run() and the closing
\* window is about to get its wait() back
C11_Witness ==
    /\ pc = "done" /\ is_paused /\ ~is_running
    /\ obs.finished_count = 1 /\ obs.dispatch_log # << >>
    /\ ui_pc = "close_player_wait"

----------------------------------------------------------------------------
\* the worker is in the countdown of lines 186-188 or at the test of line 189
InCountdown == pc \in {"countdown", "start"}

\* C12: a stop request issued during the countdown ends the session with no
\* event dispatched, no key or space action emitted and no 'Playing...'
\* status: up to the end of the countdown nothing of that has happened, and
\* the next step of a stopped worker in the countdown is finished.emit().
C12_StopDuringCountdown ==
    /\ [](InCountdown =>
            /\ obs.dispatch_log = << >> /\ ~obs.playing
            /\ ks.actions = << >> /\ ks.pressed_keys = << >>
            /\ ~ks.is_space_pressed)
    /\ [][(InCountdown /\ ~is_running) =>
            \/ pc' = pc /\ countdown_i' = countdown_i /\ ks' = ks
            \/ /\ pc' = "done" /\ obs'.finished_count = 1
               /\ obs'.dispatch_log = << >> /\ ~obs'.playing
               /\ ks' = ks]_vars

\* stop_midi caught the worker in its countdown, the worker is gone
C12_Witness ==
    /\ pc = "done" /\ ui_pc = "stop_wait" /\ obs.stop_midi
    /\ obs.finished_count = 1 /\ ~obs.playing
    /\ obs.dispatch_log = << >> /\ ks.actions = << >>

----------------------------------------------------------------------------
\* C13: transposition is applied before the key lookup, for visualization and
\* for emulation: a note n that is on with transposition t is published as
\* n + t and the key held for it is the key map's entry for n + t (stated
\* for the n + t the model's key map has an entry for).
C13_TransposedLookup ==
    \A n \in ks.notes_on :
        (n + transpose) \in DOMAIN note_map =>
            /\ (n + transpose) \in DOMAIN ks.active_notes
            /\ \E i \in DOMAIN ks.pressed_keys :
                  /\ ks.pressed_keys[i].note = n
                  /\ ks.pressed_keys[i].key = BaseOf(note_map[n + transpose])

----------------------------------------------------------------------------
\* C14: a note whose transposed number falls outside 0..127 is dropped for
\* visualization and for emulation: the active-note snapshot holds no note
\* number outside 0..127 and no key is held for such a note.
C14_OutOfRangeDropped ==
    /\ \A v \in DOMAIN ks.note_event : v \in 0..127
    /\ \A v \in DOMAIN ks.active_notes : v \in 0..127
    /\ \A i \in DOMAIN ks.pressed_keys :
          (ks.pressed_keys[i].note + transpose) \in 0..127

----------------------------------------------------------------------------
\* the worker is between "Playing..." (line 191) and its cleanup (line 213)
Playing ==
    pc \in {"loop", "check_pause", "paused", "song_time", "wait",
            "check_stop", "dispatch", "cleanup"}

IsSustain(msg) == msg.type = "control_change" /\ msg.control = 64

\* no sustain message of the file has been dispatched in this session
NoSustainYet ==
    \A i \in DOMAIN obs.dispatch_log :
        ~IsSustain(events[obs.dispatch_log[i]].msg)

\* C15: from the start of playback until the first sustain message, the
\* space key is held (and is_space_pressed is true) exactly if the file
\* contains a controller-64 message.
C15_SustainDefault ==
    (Playing /\ NoSustainYet) =>
        /\ ks.is_space_pressed = HasSustain(events)
        /\ (KeySpace \in ks.held) = HasSustain(events)

\* the latest call of _process_midi_message was for event i of the file
JustDispatched(i) ==
    /\ Playing
    /\ obs.dispatch_log # << >>
    /\ obs.dispatch_log[Len(obs.dispatch_log)] = i

\* C16: for a controller-64 message of value >= 64 directly followed by one
\* of value < 64 in the file, the dispatch of the first emits exactly one
\* release of the space key and the dispatch of the second exactly one
\* press of it.
C16_SustainToggle ==
    \A i \in 1..(Len(events) - 1) :
        ( /\ IsSustain(events[i].msg) /\ events[i].msg.value >= 64
          /\ IsSustain(events[i + 1].msg) /\ events[i + 1].msg.value < 64 )
        => /\ JustDispatched(i) =>
                ks.actions = << [op |-> "release", key |-> KeySpace,
                                 was_held |-> TRUE] >>
           /\ JustDispatched(i + 1) =>
                ks.actions = << [op |-> "press", key |-> KeySpace,
                                 was_held |-> FALSE] >>

----------------------------------------------------------------------------
\* keyboard.release(Key.shift) while Shift is up
ReleaseShiftUp == [op |-> "release", key |-> KeyShift, was_held |-> FALSE]

----------------------------------------------------------------------------
\* The key state of a session that is never paused, stopped or transposed
\* after the k-th dispatch of line 210: the events are handed to
\* _process_midi_message one after the other.
RECURSIVE Unpaused(_, _, _, _)
Unpaused(evs, k, nm, tr) ==
    IF k = 0 THEN KeyState0({})
    ELSE process_midi_message(Unpaused(evs, k - 1, nm, tr), nm, evs[k].msg, tr)

\* C18: with the transposition left alone, a session dispatches the events
\* of the file in file order and, after each dispatch, its pressed keys,
\* key actions and active-note snapshot are those of the session that is
\* never paused, however often and wherever it was paused and resumed; left
\* to run to the end it has dispatched every event and its final state is
\* that of the unpaused session after the cleanup.
C18_PauseTransparent ==
    ~obs.transposed =>
        /\ Playing =>
              /\ obs.dispatch_log = [i \in 1..Len(obs.dispatch_log) |-> i]
              /\ ks = Unpaused(events, Len(obs.dispatch_log), note_map,
                               transpose)
        /\ (pc = "done" /\ obs.playing /\ is_running) =>
              /\ obs.dispatch_log = [i \in 1..Len(events) |-> i]
              /\ ks = release_all_keys(Unpaused(events, Len(events), note_map,
                                                transpose))

\* a session of FileB that was paused and resumed has dispatched the whole
\* file and was not stopped
C18_Witness ==
    /\ pc = "cleanup" /\ is_running /\ ~is_paused
    /\ events = FileB
    /\ pause_offset > 0
    /\ Len(obs.dispatch_log) = Len(FileB)
    /\ ~obs.transposed

----------------------------------------------------------------------------
\* C19: a change of the speed multiplier while a session is playing or paused
\* leaves the song time where it was: the value the formula of line 200
\* yields right after the change is the one it yielded right before.
C19_SongTimeContinuous ==
    [][(Playing /\ speed_multiplier' # speed_multiplier) =>
          SongTimeNow' = SongTimeNow]_vars

----------------------------------------------------------------------------
\* C20: after every dispatched event the published active-note map holds
\* exactly the visual notes of the source notes that are on, also when the
\* transposition changed between a note's NoteOn and its NoteOff.
C20_SnapshotIsNotesOn ==
    Playing =>
        DOMAIN ks.note_event = {ks.visual_on[n] : n \in DOMAIN ks.visual_on}

----------------------------------------------------------------------------
(* Properties of the compilation.                                          *)

\* the messages the loop of line 152 has been through
Merged == SubSeq(loader.stream, 1, loader.next - 1)

\* C21: the compiled sequence has non-decreasing timestamps, holds exactly
\* the non-meta messages of the merged stream in merge order, and
\* has_sustain is true exactly if a compiled event is a control-change of
\* controller 64 (stated for every prefix the loop has been through).
C21_CompiledOrder ==
    LET kept == SelectSeq(Merged, LAMBDA m : ~IsMeta(m.msg)) IN
    /\ Len(loader.events) = Len(kept)
    /\ \A i \in DOMAIN loader.events : loader.events[i].msg = kept[i].msg
    /\ \A i, j \in DOMAIN loader.events :
          i < j => loader.events[i].timestamp <= loader.events[j].timestamp
    /\ loader.has_sustain = HasSustain(loader.events)

\* a compiled stream of three messages, one of them a meta message, with a
\* sustain message and two different timestamps
C21_Witness ==
    /\ loader.pc = "done"
    /\ Len(loader.stream) = 3 /\ Len(loader.events) = 2
    /\ loader.has_sustain
    /\ loader.events[1].timestamp < loader.events[2].timestamp

\* the tempo in force before message i of the stream
TempoBefore(i) ==
    LET S == {j \in 1..(i - 1) : loader.stream[j].msg.type = "set_tempo"} IN
    IF S = {} THEN 500000
    ELSE loader.stream[CHOOSE j \in S : \A k \in S : k <= j].msg.tempo

\* the ticks-per-beat of the file, 480 when it declares a non-positive one
TpbInForce == IF loader.declared_tpb > 0 THEN loader.declared_tpb ELSE 480

\* the time of message i: the deltas up to it, each converted with the tempo
\* in force before its message
RECURSIVE TimeOf(_)
TimeOf(i) ==
    IF i = 0 THEN 0
    ELSE TimeOf(i - 1)
           + (loader.stream[i].time * TempoBefore(i)) \div TpbInForce

\* C22: each delta is converted with the tempo in force before its message
\* (500000 until the first set_tempo, ticks-per-beat 480 when the file
\* declares a non-positive value); a set_tempo changes the conversion of
\* later deltas only and its own delta is converted with the old tempo.
C22_TempoResolution ==
    /\ loader.absolute_time = TimeOf(loader.next - 1)
    /\ \A k \in DOMAIN loader.events :
          loader.events[k].timestamp = TimeOf(loader.event_src[k])

\* a file that declares no ticks-per-beat, compiled to the end, with a
\* set_tempo that carries a delta and is followed by a message with a delta
C22_Witness ==
    /\ loader.pc = "done" /\ loader.declared_tpb = 0
    /\ \E i \in 1..(Len(loader.stream) - 1) :
          /\ loader.stream[i].msg.type = "set_tempo"
          /\ loader.stream[i].time > 0
          /\ loader.stream[i + 1].time > 0
          /\ ~IsMeta(loader.stream[i + 1].msg)

\* stats["note_count"], 0 when stats is {}
NoteCount ==
    IF "note_count" \in DOMAIN loader.stats THEN loader.stats.note_count ELSE 0

\* C23: note_count is the number of note-on events with velocity > 0 of the
\* compiled sequence.
C23_NoteCount ==
    loader.pc = "done" =>
        NoteCount = Cardinality({i \in DOMAIN loader.events :
                                   /\ loader.events[i].msg.type = "note_on"
                                   /\ loader.events[i].msg.velocity > 0})


----------------------------------------------------------------------------
\* The key maps of the editor: the dialog's working copy, what get_note_map
\* exports from it, and the application's map.
Injective(m) ==
    \A a, b \in DOMAIN m : (a # b /\ m[a] # "") => m[a] # m[b]

\* C24: in every key-map state reached from DEFAULT_NOTE_MAP by key
\* assignments and restore-defaults, and in every exported map, no
\* character is mapped from two different notes.
C24_PartialInjection ==
    /\ Injective(note_map)
    /\ dialog.open => /\ Injective(dialog.note_map)
                      /\ Injective(get_note_map(dialog))

\* C28: a key press that assigns character c to the selected note n leaves
\* an exported map that maps n to c, maps no other note to c, and keeps the
\* character of every other note that did not hold c.
C28_ReassignPostCondition ==
    [][\A c \in KeyTexts \ {""} :
         (/\ dialog.open /\ dialog.selected # 0
          /\ dialog' = table_key_press_event(dialog, c))
         => LET n == dialog.selected
                before == get_note_map(dialog)
                after == get_note_map(dialog')
            IN /\ n \in DOMAIN after /\ after[n] = c
               /\ \A k \in DOMAIN after : after[k] = c => k = n
               /\ \A k \in DOMAIN dialog.note_map \ {n} :
                     dialog.note_map[k] # c
                     => /\ (k \in DOMAIN after) = (k \in DOMAIN before)
                        /\ k \in DOMAIN before => after[k] = before[k]
       ]_vars

\* Note 53 was given the character u, which notes 64 and 98 held.
C28_Witness ==
    /\ dialog.open /\ dialog.selected = 53
    /\ dialog.note_map[53] = "u"
    /\ dialog.note_map[64] = "" /\ dialog.note_map[98] = ""
    /\ dialog.note_map[55] = "w"

----------------------------------------------------------------------------
\* The text the export is to produce, by selection: the groups by smallest
\* timestamp first, the characters of a group by smallest code point first.
MappedNoteOns(evs, nm) ==
    {i \in DOMAIN evs : /\ evs[i].msg.type = "note_on"
                        /\ evs[i].msg.velocity > 0
                        /\ evs[i].msg.note \in DOMAIN nm}

RECURSIVE ClusterChars(_, _, _)
ClusterChars(evs, nm, idx) ==
    IF idx = {} THEN ""
    ELSE LET i == CHOOSE i \in idx : \A j \in idx :
                     CodePoint[nm[evs[i].msg.note]]
                        <= CodePoint[nm[evs[j].msg.note]]
         IN nm[evs[i].msg.note] \o ClusterChars(evs, nm, idx \ {i})

RECURSIVE ExpectedText(_, _, _)
ExpectedText(evs, nm, idx) ==
    IF idx = {} THEN ""
    ELSE LET t == CHOOSE t \in {evs[i].timestamp : i \in idx} :
                     \A i \in idx : t <= evs[i].timestamp
             group == {i \in idx : evs[i].timestamp = t}
             chars == ClusterChars(evs, nm, group)
             part == IF Cardinality(group) = 1 THEN chars
                     ELSE "[" \o chars \o "]"
         IN IF idx = group THEN part
            ELSE part \o " " \o ExpectedText(evs, nm, idx \ group)

\* C25: the generated text is the function of (compiled events, key map)
\* that groups the velocity > 0 note-ons by timestamp, emits the groups in
\* ascending timestamp order separated by single spaces, a group of one
\* mapped note as the bare character, a group of several as their characters
\* in ascending order between brackets, and nothing for unmapped notes.
C25_DerivedText ==
    export.status = "complete"
    => export.text = ExpectedText(export.events, note_map,
                                  MappedNoteOns(export.events, note_map))

\* A text with a bare character and a sorted cluster, from events that list
\* the cluster's notes in descending character order.
C25_Witness ==
    /\ export.status = "complete"
    /\ export.events = << Ev(0, NoteOn(54, 80)), Ev(1, NoteOn(53, 80)),
                          Ev(1, NoteOn(38, 80)) >>
    /\ note_map = DEFAULT_NOTE_MAP
    /\ export.text = "Q [_q]"

----------------------------------------------------------------------------
\* C26: when the backend rejects a press or release action, the failure is
\* logged (the worker emits a log line besides the one of each dispatched
\* event), the events that remain are all dispatched and the cleanup runs.
C26_DeviceErrorIsolation ==
    /\ dev.rejected > 0 => dev.log_lines > Len(obs.dispatch_log)
    /\ pc = "released" => /\ obs.dispatch_log = [i \in 1..Len(events) |-> i]
                          /\ obs.release_all_count = 1

\* The part of C26 the code does keep: every event is dispatched and the
\* cleanup runs whatever the backend rejects.
DeviceLoopContinues ==
    /\ pc = "released" => /\ obs.dispatch_log = [i \in 1..Len(events) |-> i]
                          /\ obs.release_all_count = 1
    /\ pc = "keys" => ENABLED NextDevice

----------------------------------------------------------------------------
\* C27: a NoteOn with velocity > 0 for a note that has a pressed-key record
\* emits no press or release action and leaves pressed_keys unchanged, and
\* so does a NoteOff or zero-velocity NoteOn for a note without a record.
C27_RetriggerNoOp ==
    pc = "keys" =>
      \A msg \in KeyMsgs :
        (/\ HasNote(msg)
         /\ (msg.type = "note_on" /\ msg.velocity > 0)
               = (msg.note \in PressedNotes(ks.pressed_keys)))
        => LET k == process_midi_message(ks, note_map, msg, transpose)
           IN /\ k.actions = << >>
              /\ k.pressed_keys = ks.pressed_keys
              /\ k.held = ks.held

\* Note 54 is on with its record (base key q, down), and the latest
\* dispatch, a second NoteOn for it, emitted no key action.
C27_Witness ==
    /\ pc = "keys"
    /\ ks.actions = << >>
    /\ ks.notes_on = {54}
    /\ ks.pressed_keys = << [note |-> 54, key |-> "q"] >>
    /\ ks.held = {"q"}

----------------------------------------------------------------------------
\* C29: once is_running is False the worker dispatches at most one further
\* event, the one whose test of is_running at line 208 had already passed
\* (the worker never goes on to a dispatch while is_running is False), and
\* when it has finished after such a dispatch the cleanup has run and no
\* key is down.
C29_StopBeforeDispatch ==
    /\ [](/\ obs.late_dispatch <= 1
          /\ (pc = "done" /\ obs.late_dispatch = 1)
                => /\ obs.release_all_count = 1
                   /\ ks.pressed_keys = << >> /\ ks.held = {})
    /\ [][(~is_running /\ pc' = "dispatch") => pc = "dispatch"]_vars

\* A worker finished after dispatching a NoteOn while is_running was
\* already False; its cleanup released the key that NoteOn pressed.
C29_Witness ==
    /\ pc = "done"
    /\ obs.late_dispatch = 1
    /\ LET last == events[Len(obs.dispatch_log)].msg
       IN /\ last.type = "note_on" /\ last.velocity > 0
          /\ \E i \in DOMAIN ks.actions :
                /\ ks.actions[i] = [op |-> "release", was_held |-> TRUE,
                                    key |-> BaseOf(NoteMapGet(note_map, last.note))]

----------------------------------------------------------------------------
\* the UI thread is blocked in input_thread.wait()
InputWaits == {"disconnect_wait", "sp_input_wait", "close_input_wait"}

\* C30: once stop() has been requested on the input worker, a message that
\* comes in is neither logged nor applied: the worker leaves its loop on it
\* (or on a port error); on leaving it clears its active notes, publishes
\* one empty snapshot and logs 'Stopped listening.' once; and a caller
\* blocked in wait() on it proceeds only after that.
C30_MirrorShutdown ==
    /\ [][(~input_is_running /\ input_pc = "listen" /\ input_pc' # "listen")
            => (input_pc' = "done" /\ input_notes' = {})]_vars
    /\ [](/\ input_pc \in {"listen", "handle"}
               => (input_obs.empty_snapshots = 0 /\ input_obs.stopped_logs = 0)
          /\ input_pc = "done"
               => /\ input_notes = {}
                  /\ input_obs.empty_snapshots = 1
                  /\ input_obs.stopped_logs = 1)
    /\ [][(ui_pc \in InputWaits /\ ui_pc' \notin InputWaits)
            => input_pc = "done"]_vars

\* toggle_midi_input(False) is blocked in wait() and the worker has just
\* left its loop on a message that came in after stop().
C30_Witness ==
    /\ ui_pc = "disconnect_wait"
    /\ input_pc = "done"
    /\ input_obs.exit_by = "break"
    /\ input_obs.stopped_logs = 1
====
